---- MODULE Spec2Model ----
(***************************************************************************)
(* The style-resolution engine (substyle): given a component's `style` and *)
(* `className` props and a selector, compute the BEM class name and the    *)
(* flat inline style of one rendered node, and a chained wrapper that uses *)
(* the resolved pair as default style and class-name base.                 *)
(*                                                                         *)
(* Strings that the engine inspects or builds (keys, class names) are      *)
(* sequences of one-character strings, so that the `&` prefix test, the    *)
(* prefix removal and the `__` / `--` / space concatenations are computed. *)
(* An optional value is a sequence of length 0 (absent) or 1.              *)
(* A style tree is [prims |-> key -> primitive, subs |-> key -> tree].     *)
(***************************************************************************)
EXTENDS Integers, Sequences, FiniteSets, TLC

VARIABLES
    wrapper,    \* the callable in use: its bound default style and class-name base
    parent,     \* the resolved pair the wrapper in use was returned with
    depth,      \* how many wrappers deep the callable in use is
    pc,         \* "idle" before a call, "resolved" after it
    props,      \* the props of the last call
    selector,   \* the selector of the last call
    result      \* the resolved pair of the last call

vars == <<wrapper, parent, depth, pc, props, selector, result>>

-----------------------------------------------------------------------------
(* Bounds of the model *)

\* longest sequence / modifier-map selector passed to a resolution call
MaxSelLen == 2
\* deepest chain of wrappers (0 = the engine's entry point only)
MaxChain == 1

-----------------------------------------------------------------------------
(* Optional values *)

Absent == <<>>
Some(x) == <<x>>
IsPresent(o) == Len(o) = 1
Get(o) == o[1]

-----------------------------------------------------------------------------
(* Keys and class-name strings *)

ModifierPrefix == "&"
ElementSep == <<"_", "_">>
ModifierSep == <<"-", "-">>
Space == <<" ">>

\* style property names
Width == <<"w">>
Opacity == <<"o">>
\* element keys (`bar`, `baz`)
Bar == <<"x">>
Baz == <<"y">>
\* modifier keys (`&disabled`, `&mod`)
Disabled == <<"&", "d">>
Mod == <<"&", "m">>
\* the block name given as className prop
Block == <<"b">>

isModifier(key) == Len(key) > 0 /\ key[1] = ModifierPrefix
isElement(key) == ~isModifier(key)
modifierName(key) == Tail(key)

-----------------------------------------------------------------------------
(* Style trees *)

EmptyFn == [k \in {} |-> ""]
EmptyTree == [prims |-> EmptyFn, subs |-> EmptyFn]
Leaf(f) == [prims |-> f, subs |-> EmptyFn]
Node(f, g) == [prims |-> f, subs |-> g]

\* f restricted/extended by g: g's entries win
Override(f, g) == [k \in (DOMAIN f) \cup (DOMAIN g) |-> IF k \in DOMAIN g THEN g[k] ELSE f[k]]
Without(f, ks) == [k \in (DOMAIN f) \ ks |-> f[k]]

RECURSIVE mergeKeepingEarlier(_, _)
\* a merge that fills in only what the earlier layer lacks
mergeKeepingEarlier(a, b) ==
    LET subKeys == (DOMAIN a.subs) \cup ((DOMAIN b.subs) \ (DOMAIN a.prims))
    IN [prims |-> Override(Without(b.prims, DOMAIN a.subs), a.prims),
        subs |-> [k \in subKeys |->
                    IF k \in DOMAIN a.subs
                    THEN IF k \in DOMAIN b.subs THEN mergeKeepingEarlier(a.subs[k], b.subs[k]) ELSE a.subs[k]
                    ELSE b.subs[k]]]

RECURSIVE merge(_, _)
\* deep merge of b over a: mappings merge recursively, primitives are
\* overwritten, the later layer b wins on conflict
merge(a, b) ==
    LET subKeys == ((DOMAIN a.subs) \ (DOMAIN b.prims)) \cup (DOMAIN b.subs)
    IN [prims |-> Override(Without(a.prims, DOMAIN b.subs), b.prims),
        subs |-> [k \in subKeys |->
                    IF k \in DOMAIN b.subs
                    THEN IF k \in DOMAIN a.subs THEN merge(a.subs[k], b.subs[k]) ELSE b.subs[k]
                    ELSE a.subs[k]]]

\* the tree as it is, nested trees included
wholeTree(t) == t

\* the own primitive entries of a tree
ownPrimitives(t) == Leaf(t.prims)

\* the nested tree under key, or the tree itself when there is none
subTreeOrSelf(t, key) == IF key \in DOMAIN t.subs THEN t.subs[key] ELSE t

\* the nested tree under key, or the empty tree when there is none
subTree(t, key) == IF key \in DOMAIN t.subs THEN t.subs[key] ELSE EmptyTree

-----------------------------------------------------------------------------
(* Selectors *)

\* A selector is absent, one key, a sequence of keys, or a modifier map (its
\* entries in iteration order: keys[i] maps to flags[i]).
NoSelector == [kind |-> "absent", keys |-> <<>>, flags |-> <<>>]
StringSelector(k) == [kind |-> "string", keys |-> <<k>>, flags |-> <<>>]
SequenceSelector(ks) == [kind |-> "sequence", keys |-> ks, flags |-> <<>>]
ModifierMap(ks, fs) == [kind |-> "map", keys |-> ks, flags |-> fs]

\* every key of a modifier map, whatever its value
allKeys(ks, fs) == ks

RECURSIVE truthyKeys(_, _)
\* the keys of a modifier map whose value is truthy, in iteration order
truthyKeys(ks, fs) ==
    IF ks = <<>> THEN <<>>
    ELSE (IF Head(fs) THEN <<Head(ks)>> ELSE <<>>) \o truthyKeys(Tail(ks), Tail(fs))

\* the keys that take part in the resolution
selectedKeys(sel) ==
    IF sel.kind = "map" THEN truthyKeys(sel.keys, sel.flags) ELSE sel.keys

RECURSIVE unique(_)
\* a sequence without its repeated entries (first occurrence kept)
unique(ks) ==
    IF ks = <<>> THEN <<>>
    ELSE LET front == unique(SubSeq(ks, 1, Len(ks) - 1))
             last == ks[Len(ks)]
         IN IF \E i \in 1..Len(front) : front[i] = last THEN front ELSE Append(front, last)

\* the canonical form: element keys in order, and the set of active modifiers
\* (kept in declaration order)
normalize(sel) ==
    [elementKeys |-> SelectSeq(selectedKeys(sel), isElement),
     modifiers |-> unique(SelectSeq(selectedKeys(sel), isModifier))]

-----------------------------------------------------------------------------
(* Class Name Deriver *)

RECURSIVE join(_)
\* tokens joined by single spaces
join(tokens) ==
    IF Len(tokens) = 1 THEN Head(tokens)
    ELSE Head(tokens) \o Space \o join(Tail(tokens))

elementClassOneUnderscore(base, key) == base \o <<"_">> \o key
modifierClassWithPrefix(base, key) == base \o ModifierSep \o key

elementClass(base, key) == base \o ElementSep \o key
modifierClass(base, key) == base \o ModifierSep \o modifierName(key)

\* the tokens of a node's class name: the block class and its modifier
\* variants, or one class per element key
classTokens(base, elementKeys, modifiers) ==
    IF elementKeys = <<>>
    THEN <<base>> \o [i \in 1..Len(modifiers) |-> modifierClass(base, modifiers[i])]
    ELSE [i \in 1..Len(elementKeys) |-> elementClass(base, elementKeys[i])]

\* a class name derived from the text of an absent base
deriveClassNameUnguarded(base, elementKeys, modifiers) ==
    Some(join(classTokens(IF IsPresent(base) THEN Get(base) ELSE <<"u", "n", "d", "e", "f", "i", "n", "e", "d">>,
                          elementKeys, modifiers)))

\* no class name is derived without a base
deriveClassName(base, elementKeys, modifiers) ==
    IF IsPresent(base)
    THEN Some(join(classTokens(Get(base), elementKeys, modifiers)))
    ELSE Absent

-----------------------------------------------------------------------------
(* Style Deriver *)

RECURSIVE mergeElementsLastFirst(_, _, _)
\* the element trees merged from the last key to the first
mergeElementsLastFirst(acc, from, elementKeys) ==
    IF elementKeys = <<>> THEN acc
    ELSE mergeElementsLastFirst(merge(acc, subTree(from, elementKeys[Len(elementKeys)])),
                                from, SubSeq(elementKeys, 1, Len(elementKeys) - 1))

RECURSIVE mergeElements(_, _, _)
\* acc with from[key] deep-merged in for each element key, in order
mergeElements(acc, from, elementKeys) ==
    IF elementKeys = <<>> THEN acc
    ELSE mergeElements(merge(acc, subTree(from, Head(elementKeys))), from, Tail(elementKeys))

\* acc with the layer of one active modifier merged in: its direct entries
\* for the block, its nested element trees for an element resolution
mergeModifier(acc, styleTree, modifier, elementKeys) ==
    IF elementKeys = <<>>
    THEN merge(acc, ownPrimitives(subTree(styleTree, modifier)))
    ELSE mergeElements(acc, subTree(styleTree, modifier), elementKeys)

RECURSIVE mergeModifiers(_, _, _, _)
\* acc with every active modifier's layer merged in, in declaration order
mergeModifiers(acc, styleTree, modifiers, elementKeys) ==
    IF modifiers = <<>> THEN acc
    ELSE mergeModifiers(mergeModifier(acc, styleTree, Head(modifiers), elementKeys),
                        styleTree, Tail(modifiers), elementKeys)

\* acc with the base layer merged in: the block's own entries, or the
\* selected elements' trees
mergeBase(acc, styleTree, elementKeys) ==
    IF elementKeys = <<>>
    THEN merge(acc, ownPrimitives(styleTree))
    ELSE mergeElements(acc, styleTree, elementKeys)

orEmpty(o) == IF IsPresent(o) THEN Get(o) ELSE EmptyTree

deriveStyle(styleTree, elementKeys, modifiers, defaultStyle) ==
    LET tree == orEmpty(styleTree)
        withBase == mergeBase(orEmpty(defaultStyle), tree, elementKeys)
        withModifiers == mergeModifiers(withBase, tree, modifiers, elementKeys)
    IN ownPrimitives(withModifiers)

-----------------------------------------------------------------------------
(* Entry point and Chaining Wrapper *)

\* the wrapper of the entry point: no default style, base taken from props
RootWrapper == [defaultStyle |-> Absent, base |-> Absent]

\* the base always taken from the className prop
classNameBaseFromProps(w, d, p) == p.className

\* the class-name base of a call: bound by a chained wrapper, else the prop
classNameBase(w, d, p) == IF d = 0 THEN p.className ELSE w.base

resolve(w, d, p, sel) ==
    LET n == normalize(sel)
    IN [className |-> deriveClassName(classNameBase(w, d, p), n.elementKeys, n.modifiers),
        style |-> deriveStyle(p.style, n.elementKeys, n.modifiers, w.defaultStyle)]

\* a wrapper that keeps the class name and forgets the resolved style
chainedWithoutDefault(r) == [defaultStyle |-> Absent, base |-> r.className]

\* the wrapper returned with a resolved pair
chained(r) == [defaultStyle |-> Some(r.style), base |-> r.className]

-----------------------------------------------------------------------------
(* The inputs of a resolution call *)

\* the parts a style tree is assembled from; every position has a value of
\* its own, so a resolved value names the layer it came from
BlockParts == {EmptyFn, (Width :> "block-w") @@ (Opacity :> "block-o")}
BarTree == Node(Width :> "bar-w", Baz :> Leaf(Width :> "bar-baz-w"))
BazTree == Leaf(Width :> "baz-w")
ElementParts == {EmptyFn, Bar :> BarTree, (Bar :> BarTree) @@ (Baz :> BazTree)}
DisabledTree ==
    Node((Width :> "dis-w") @@ (Opacity :> "dis-o"),
         (Bar :> Leaf(Width :> "dis-bar-w")) @@ (Baz :> Leaf(Width :> "dis-baz-w")))
ModTree == Node(Width :> "mod-w", Bar :> Leaf(Width :> "mod-bar-w"))
ModifierParts == {EmptyFn, Disabled :> DisabledTree, (Disabled :> DisabledTree) @@ (Mod :> ModTree)}

StyleTrees ==
    {Node(b, e @@ m) : b \in BlockParts, e \in ElementParts, m \in ModifierParts}
StyleProps == {Absent} \cup {Some(t) : t \in StyleTrees}
ClassNameProps == {Absent, Some(Block)}

SequenceKeys == {Bar, Baz, Disabled}
MapKeys == {Bar, Disabled, Mod}
StringKeys == {Bar, Baz, Disabled}

KeySeqs(keys) == UNION {[1..n -> keys] : n \in 0..MaxSelLen}
Distinct(ks) == \A i, j \in 1..Len(ks) : i # j => ks[i] # ks[j]

Selectors ==
    {NoSelector}
    \cup {StringSelector(k) : k \in StringKeys}
    \cup {SequenceSelector(ks) : ks \in KeySeqs(SequenceKeys)}
    \cup UNION {{ModifierMap(ks, fs) : fs \in [1..Len(ks) -> BOOLEAN]} :
                    ks \in {q \in KeySeqs(MapKeys) : Distinct(q)}}

NoProps == [style |-> Absent, className |-> Absent]
NoResult == [className |-> Absent, style |-> EmptyTree]

-----------------------------------------------------------------------------
(* The state machine: a node is resolved with the current wrapper; the      *)
(* wrapper returned with the result may then resolve a descendant.          *)

Init ==
    /\ wrapper = RootWrapper
    /\ parent = NoResult
    /\ depth = 0
    /\ pc = "idle"
    /\ props = NoProps
    /\ selector = NoSelector
    /\ result = NoResult

\* the props a call may pass: a chained wrapper has its base bound, so the
\* className prop is left out there
PropsAt(d) ==
    {[style |-> st, className |-> cn] :
        st \in StyleProps, cn \in IF d = 0 THEN ClassNameProps ELSE {Absent}}

\* substyle(props, selector), or the same call on a chained wrapper
Substyle ==
    /\ pc = "idle"
    /\ \E p \in PropsAt(depth), sel \in Selectors :
            /\ props' = p
            /\ selector' = sel
            /\ result' = resolve(wrapper, depth, p, sel)
    /\ pc' = "resolved"
    /\ UNCHANGED <<wrapper, parent, depth>>

\* the caller goes on with the wrapper returned by the last call
Chain ==
    /\ pc = "resolved"
    /\ depth < MaxChain
    /\ wrapper' = chained(result)
    /\ parent' = result
    /\ depth' = depth + 1
    /\ pc' = "idle"
    /\ props' = NoProps
    /\ selector' = NoSelector
    /\ result' = NoResult

Next == Substyle \/ Chain

Spec == Init /\ [][Next]_vars

-----------------------------------------------------------------------------
(* What the properties below speak about *)

Resolved == pc = "resolved"
CallBase == IF depth = 0 THEN props.className ELSE wrapper.base
CallTree == orEmpty(props.style)
CallDefault == orEmpty(wrapper.defaultStyle)
ElementKeys == SelectSeq(selectedKeys(selector), isElement)
ActiveModifiers == unique(SelectSeq(selectedKeys(selector), isModifier))

StyleProperties == {Width, Opacity}
PrimAt(t, p) == IF p \in DOMAIN t.prims THEN Some(t.prims[p]) ELSE Absent
Max(S) == CHOOSE x \in S : \A y \in S : y <= x

\* the trees a resolution draws from, lowest precedence first: the default
\* style, the block itself or the selected elements, then for each active
\* modifier its own tree (block) or its trees of the selected elements
BaseLayers(eks) ==
    IF eks = <<>> THEN <<CallTree>>
    ELSE [i \in 1..Len(eks) |-> subTree(CallTree, eks[i])]
ModifierLayersOf(m, eks) ==
    IF eks = <<>> THEN <<subTree(CallTree, m)>>
    ELSE [i \in 1..Len(eks) |-> subTree(subTree(CallTree, m), eks[i])]
RECURSIVE ModifierLayers(_, _)
ModifierLayers(ms, eks) ==
    IF ms = <<>> THEN <<>>
    ELSE ModifierLayersOf(Head(ms), eks) \o ModifierLayers(Tail(ms), eks)

\* the value of property p in the highest layer that has it
TopValue(layers, p) ==
    LET having == {i \in 1..Len(layers) : p \in DOMAIN layers[i].prims}
    IN IF having = {} THEN Absent ELSE Some(layers[Max(having)].prims[p])

-----------------------------------------------------------------------------
(* C1 *)

\* C1: precedence law of deriveStyle. The layers are merged in the order
\* default < base block < selected elements < active modifiers: every
\* property resolves to its value in the highest layer that has it, so a
\* property of an active modifier layer resolves to the modifier's value
\* whatever the default style and the base or element layer say.
PrecedenceLaw ==
    Resolved =>
        LET eks == ElementKeys
            modifierLayers == ModifierLayers(ActiveModifiers, eks)
            layers == <<CallDefault>> \o BaseLayers(eks) \o modifierLayers
        IN \A p \in StyleProperties :
            /\ PrimAt(result.style, p) = TopValue(layers, p)
            /\ TopValue(modifierLayers, p) # Absent =>
                    PrimAt(result.style, p) = TopValue(modifierLayers, p)

\* the README's style object: position/top on the block, bar, and &disabled
ReadmeStyle ==
    Node((Width :> "block-w") @@ (Opacity :> "block-o"),
         (Bar :> BarTree) @@ (Disabled :> DisabledTree))

\* substyle(rest, {bar: true, '&disabled': true}) on a wrapper whose default
\* style has a width: the modifier's bar width wins over default and base
PrecedenceWitness ==
    /\ Resolved
    /\ depth = 1
    /\ PrimAt(CallDefault, Width) = Some("block-w")
    /\ props.style = Some(ReadmeStyle)
    /\ selector = ModifierMap(<<Bar, Disabled>>, <<TRUE, TRUE>>)
    /\ PrimAt(subTree(CallTree, Bar), Width) = Some("bar-w")
    /\ PrimAt(result.style, Width) = Some("dis-bar-w")

-----------------------------------------------------------------------------
(* C2 *)

RECURSIVE ModifierSuffix(_, _)
\* " base--name" for each modifier, in order
ModifierSuffix(base, ms) ==
    IF ms = <<>> THEN <<>>
    ELSE <<" ">> \o base \o <<"-", "-">> \o Tail(Head(ms)) \o ModifierSuffix(base, Tail(ms))

\* C2: block modifier class name. With a base and no element key selected,
\* the class name is the base followed by one token base--name per active
\* modifier (name = the key without its & prefix), separated by single
\* spaces; with no active modifier it is the base alone.
BlockModifierClassName ==
    (Resolved /\ IsPresent(CallBase) /\ ElementKeys = <<>>) =>
        /\ result.className = Some(Get(CallBase) \o ModifierSuffix(Get(CallBase), ActiveModifiers))
        /\ ActiveModifiers = <<>> => result.className = CallBase

\* substyle({className: 'b'}, {'&d': true}) has className 'b b--d'
BlockModifierWitness ==
    /\ Resolved
    /\ depth = 0
    /\ props.className = Some(<<"b">>)
    /\ selector = ModifierMap(<<Disabled>>, <<TRUE>>)
    /\ result.className = Some(<<"b", " ", "b", "-", "-", "d">>)

-----------------------------------------------------------------------------
(* C3 *)

RECURSIVE ElementTokens(_, _)
\* "base__key" for each key, in order, separated by single spaces
ElementTokens(base, ks) ==
    base \o <<"_", "_">> \o Head(ks)
        \o (IF Len(ks) = 1 THEN <<>> ELSE <<" ">> \o ElementTokens(base, Tail(ks)))

\* C3: element class names. With a base and element keys selected, the class
\* name is exactly one token base__key per element key, in selector order
\* (repeated keys repeat), with no block token and no modifier token,
\* whatever modifiers are active.
ElementClassNames ==
    (Resolved /\ IsPresent(CallBase) /\ ElementKeys # <<>>) =>
        result.className = Some(ElementTokens(Get(CallBase), ElementKeys))

\* substyle({className: 'b'}, {x: true, '&d': true}) has className 'b__x'
ElementClassWitness ==
    /\ Resolved
    /\ depth = 0
    /\ props.className = Some(<<"b">>)
    /\ selector = ModifierMap(<<Bar, Disabled>>, <<TRUE, TRUE>>)
    /\ result.className = Some(<<"b", "_", "_", "x">>)

-----------------------------------------------------------------------------
(* C4 *)

\* C4: no class-name base means no class name. Whenever the base is absent
\* the resolved className is absent, for every selector shape.
NoBaseNoClassName ==
    (Resolved /\ ~IsPresent(CallBase)) => result.className = Absent

\* no className prop, an element key and an active modifier selected
NoBaseWitness ==
    /\ Resolved
    /\ props.className = Absent
    /\ CallBase = Absent
    /\ ElementKeys = <<Bar>>
    /\ ActiveModifiers = <<Disabled>>
    /\ result.className = Absent

-----------------------------------------------------------------------------
(* C5 *)

-----------------------------------------------------------------------------
(* C6 *)

\* C6: base-case chaining identity. Resolving (props, k) and then resolving
\* the returned wrapper with no style prop and no selector yields the style
\* that resolving (props, k) yielded.
ChainingIdentity ==
    (Resolved /\ depth > 0 /\ props.style = Absent /\ selector = NoSelector) =>
        result.style = parent.style

\* the wrapper returned by substyle({className: 'b', style}, 'x'), resolved
\* with no selector, yields the bar element's style again
ChainingWitness ==
    /\ Resolved
    /\ depth = 1
    /\ parent.className = Some(<<"b", "_", "_", "x">>)
    /\ parent.style = Leaf(Width :> "bar-w")
    /\ props.style = Absent
    /\ selector = NoSelector
    /\ result.style = Leaf(Width :> "bar-w")

-----------------------------------------------------------------------------
(* C7 *)

\* the modifier map without its falsy entries
TruthyEntries(sel) ==
    LET kept == {i \in 1..Len(sel.keys) : sel.flags[i]}
        NthKept(n) == CHOOSE i \in kept : Cardinality({j \in kept : j < i}) = n - 1
    IN ModifierMap([n \in 1..Cardinality(kept) |-> sel.keys[NthKept(n)]],
                   [n \in 1..Cardinality(kept) |-> TRUE])

\* C7: falsy modifier-map entries never affect output. Removing the entries
\* whose value is falsy changes neither the resolved className nor the
\* resolved style; a map with falsy entries only resolves as no selector.
FalsyEntriesIgnored ==
    (Resolved /\ selector.kind = "map") =>
        /\ result = resolve(wrapper, depth, props, TruthyEntries(selector))
        /\ (\A i \in 1..Len(selector.flags) : ~selector.flags[i]) =>
                result = resolve(wrapper, depth, props, NoSelector)

\* substyle(props, {x: false}) is the block's resolution
FalsyEntriesWitness ==
    /\ Resolved
    /\ depth = 0
    /\ props = [style |-> Some(ReadmeStyle), className |-> Some(Block)]
    /\ selector = ModifierMap(<<Bar>>, <<FALSE>>)
    /\ result.className = Some(<<"b">>)
    /\ result.style = Leaf((Width :> "block-w") @@ (Opacity :> "block-o"))

-----------------------------------------------------------------------------
(* C8 *)

\* C8: order law. For a sequence selector [a, b] of two element keys whose
\* trees both define property p, the resolved p is the value from b's tree.
OrderLaw ==
    (Resolved /\ selector.kind = "sequence" /\ Len(selector.keys) = 2
        /\ isElement(selector.keys[1]) /\ isElement(selector.keys[2])) =>
        \A p \in StyleProperties :
            (/\ PrimAt(subTree(CallTree, selector.keys[1]), p) # Absent
             /\ PrimAt(subTree(CallTree, selector.keys[2]), p) # Absent) =>
                PrimAt(result.style, p) = PrimAt(subTree(CallTree, selector.keys[2]), p)

\* substyle(props, ['x', 'y']) takes the width of y, ['y', 'x'] that of x
OrderWitness ==
    /\ Resolved
    /\ selector = SequenceSelector(<<Bar, Baz>>)
    /\ PrimAt(subTree(CallTree, Bar), Width) = Some("bar-w")
    /\ PrimAt(subTree(CallTree, Baz), Width) = Some("baz-w")
    /\ PrimAt(CallDefault, Width) = Some("dis-w")
    /\ PrimAt(result.style, Width) = Some("baz-w")

-----------------------------------------------------------------------------
(* C9 *)

\* C9: absent-input tolerance. A missing style tree contributes nothing to
\* the style, a missing base gives no className, a missing selector is the
\* block's resolution, and a selected element key the style tree does not
\* have contributes nothing.
AbsentInputTolerance ==
    Resolved =>
        /\ props.style = Absent => result.style = Leaf(CallDefault.prims)
        /\ CallBase = Absent => result.className = Absent
        /\ selector = NoSelector =>
                /\ result.className = CallBase
                /\ result.style = Leaf(Override(CallDefault.prims, CallTree.prims))
        /\ \A k \in {Bar, Baz} :
                (selector = StringSelector(k) /\ k \notin DOMAIN CallTree.subs) =>
                    result.style = Leaf(CallDefault.prims)

\* substyle({style: {w, o, x: {...}}}, 'y'): no className, an empty style
AbsentInputWitness ==
    /\ Resolved
    /\ depth = 0
    /\ props.className = Absent
    /\ IsPresent(props.style)
    /\ DOMAIN CallTree.prims = {Width, Opacity}
    /\ Bar \in DOMAIN CallTree.subs
    /\ Baz \notin DOMAIN CallTree.subs
    /\ selector = StringSelector(Baz)
    /\ result = [className |-> Absent, style |-> EmptyTree]

-----------------------------------------------------------------------------
(* C10 *)

\* C10: chained class-name rebinding. The wrapper returned with resolved
\* className c has c as its base: resolving it with element key k yields
\* c__k, whatever the first call's selector was.
ChainedClassName ==
    (Resolved /\ depth > 0 /\ IsPresent(parent.className)) =>
        \A k \in {Bar, Baz} :
            selector = StringSelector(k) =>
                result.className = Some(Get(parent.className) \o <<"_", "_">> \o k)

\* after a block resolution with an active modifier, c is 'b b--d' and the
\* wrapper's element x gets 'b b--d__x'
ChainedClassNameWitness ==
    /\ Resolved
    /\ depth = 1
    /\ parent.className = Some(<<"b", " ", "b", "-", "-", "d">>)
    /\ selector = StringSelector(Bar)
    /\ result.className = Some(<<"b", " ", "b", "-", "-", "d", "_", "_", "x">>)

\* after a sequence selector, c is 'b__x b__y' and the wrapper's element x
\* gets 'b__x b__y__x'
ChainedSequenceWitness ==
    /\ Resolved
    /\ depth = 1
    /\ parent.className = Some(<<"b", "_", "_", "x", " ", "b", "_", "_", "y">>)
    /\ selector = StringSelector(Bar)
    /\ result.className = Some(<<"b", "_", "_", "x", " ", "b", "_", "_", "y", "_", "_", "x">>)

====
